---- MODULE Spec2Model ----
(***************************************************************************)
(* BetterWriter: the document tree (fileMap), the workspace registry       *)
(* (books), the session fields and the local-storage snapshot, as the App  *)
(* components of the repository maintain them.                             *)
(*                                                                         *)
(* The repository holds several App components.  The ones modelled are     *)
(*   "App" : src/App.tsx                                                   *)
(*   "P1a" : src/unnamed/part_001, lines 1-866                             *)
(*   "P1b" : src/unnamed/part_001, lines 867-1474                          *)
(*   "P2a" : src/unnamed/part_002, lines 1-1236 (uses SidebarNew.tsx)      *)
(*   "P2b" : src/unnamed/part_002, lines 1238-1710 (one file, no tree)     *)
(* The variable app says which one is mounted; it never changes.           *)
(*                                                                         *)
(* React state: `state` is the value the functional updaters receive as    *)
(* `prev`; `rendered` is the value the handlers of the last render closed  *)
(* over (what the code reads as `state.xxx`, and the props of Sidebar).    *)
(* `batch` counts the handler calls since the last render; `last` names    *)
(* the operation that ran last and its arguments (a reload records the     *)
(* state it replaced).                                                     *)
(* Outside the AppState: `saving` is the saveFile call in flight (its      *)
(* position between two awaits and the fileNode it read), `disk` the text  *)
(* of the external files, `permissionMessage` the banner, `proofread` the  *)
(* proofreading request and its result.  The steps that follow an await    *)
(* run when no handler call waits for a render (batch = 0).                *)
(* Ids: 0 stands for null / undefined / ''.  A missing `children` array is *)
(* the empty sequence, a missing isOpen is FALSE.                          *)
(***************************************************************************)
EXTENDS Integers, Sequences, FiniteSets, TLC

\* ---- bounds of the model ----
MaxId == 5          \* ids generateId may hand out: 1..MaxId
MaxBatch == 2       \* handler calls of App.tsx that may share one rendered snapshot
MaxBatchNew == 1    \* the same for the part_001 / part_002 components
MaxFolders == 1     \* folders in one bulk reorganize request
MaxFileIds == 2     \* file ids listed in one folder of a bulk request
MaxLen == 3         \* length of an edited text
MaxSaveId == 4      \* ids handed out while files are saved to the disk
MaxSel == 1         \* length of the selection handed to the proofreading

NoId == 0
Ids == 1..MaxId

VARIABLES app, state, rendered, nextId, batch, last, storage,
          saving, disk, permissionMessage, proofread

\* what lives outside the AppState: the saveFile call in flight, the text of
\* the external files (by the id of the node that holds the handle) and the
\* permission banner; proofread is the proofreadResult of App.tsx and the
\* request that will set it
ioVars == <<saving, disk, permissionMessage, proofread>>

vars == <<app, state, rendered, nextId, batch, last, storage,
          saving, disk, permissionMessage, proofread>>

\* ---- sequences and maps ----
Contains(s, x) == \E i \in DOMAIN s : s[i] = x

Count(s, x) == Cardinality({i \in DOMAIN s : s[i] = x})

Without(s, x) == SelectSeq(s, LAMBDA c : c # x)

Range(s) == {s[i] : i \in DOMAIN s}

Put(m, k, v) == [i \in (DOMAIN m) \cup {k} |-> IF i = k THEN v ELSE m[i]]

Remove(m, K) == [i \in (DOMAIN m) \ K |-> m[i]]

EmptyMap == [i \in {} |-> 0]

\* ---- text: a sequence of characters ----
Chars == {"a", " "}

\* the class \s of the regular expressions
IsWs(c) == c = " "

RECURSIVE SplitFrom(_, _, _, _, _)
SplitFrom(s, i, cur, inWs, acc) ==
  IF i > Len(s) THEN Append(acc, cur)
  ELSE IF IsWs(s[i])
       THEN IF inWs THEN SplitFrom(s, i + 1, cur, TRUE, acc)
                    ELSE SplitFrom(s, i + 1, <<>>, TRUE, Append(acc, cur))
       ELSE SplitFrom(s, i + 1, Append(cur, s[i]), FALSE, acc)

\* String.prototype.split(/\s+/): the pieces between the whitespace runs
Split(s) == SplitFrom(s, 1, <<>>, FALSE, <<>>)

RECURSIVE TrimStart(_)
TrimStart(s) == IF s # <<>> /\ IsWs(Head(s)) THEN TrimStart(Tail(s)) ELSE s

RECURSIVE TrimEnd(_)
TrimEnd(s) ==
  IF s # <<>> /\ IsWs(s[Len(s)]) THEN TrimEnd(SubSeq(s, 1, Len(s) - 1)) ELSE s

\* String.prototype.trim
Trim(s) == TrimEnd(TrimStart(s))

NonEmpty(pieces) == SelectSeq(pieces, LAMBDA w : Len(w) > 0)

\* ---- nodes ----
NewFolder(parentId, children, isOpen) ==
  [parentId |-> parentId, type |-> "FOLDER", children |-> children,
   isOpen |-> isOpen, content |-> <<>>, wordCount |-> 0, fileHandle |-> "absent",
   title |-> "Untitled", tags |-> <<>>]

NewFile(parentId, content, wordCount, isOpen, fileHandle) ==
  [parentId |-> parentId, type |-> "FILE", children |-> <<>>,
   isOpen |-> isOpen, content |-> content, wordCount |-> wordCount,
   fileHandle |-> fileHandle, title |-> "Untitled", tags |-> <<>>]

\* { ...map[id] }: the node, or no field at all when the map lacks id
SpreadNode(map, id) ==
  IF id \in DOMAIN map THEN map[id]
  ELSE [parentId |-> NoId, type |-> "undefined", children |-> <<>>,
        isOpen |-> FALSE, content |-> <<>>, wordCount |-> 0, fileHandle |-> "absent",
        title |-> "undefined", tags |-> <<>>]

NewBook(id, rootFolderId) == [id |-> id, rootFolderId |-> rootFolderId]

\* ---- the AppState (src/types.ts, AppState) ----
\* src/App.tsx sets these literal ids; generateId never returns them.
initialBookId == 1

initialRootId == 2

initialFileId == 3

\* App.tsx line 46: the text of the first chapter has 27 words
DefaultContent ==
  [i \in 1..53 |-> IF i % 2 = 1 THEN "a" ELSE " "]

defaultState(a, dark) ==
  IF a = "App"
  THEN [view |-> "LANDING", user |-> FALSE,
        books |-> <<NewBook(initialBookId, initialRootId)>>,
        fileMap |-> Put(Put(EmptyMap, initialRootId,
                            NewFolder(NoId, <<initialFileId>>, TRUE)),
                        initialFileId,
                        NewFile(initialRootId, DefaultContent, 26, FALSE, "absent")),
        activeBookId |-> initialBookId, activeFileId |-> initialFileId,
        darkMode |-> dark, focusMode |-> FALSE, sidebarOpen |-> TRUE]
  ELSE [view |-> "LANDING", user |-> FALSE, books |-> <<>>, fileMap |-> EmptyMap,
        activeBookId |-> NoId, activeFileId |-> NoId,
        darkMode |-> dark, focusMode |-> FALSE, sidebarOpen |-> a # "P2b"]

FirstId(a) == IF a = "App" THEN 4 ELSE 1

\* books.find(b => b.id === activeBookId)?.rootFolderId, 0 when there is none
RootFolderId(s) ==
  IF \E i \in DOMAIN s.books : s.books[i].id = s.activeBookId
  THEN LET i == CHOOSE i \in DOMAIN s.books :
                  /\ s.books[i].id = s.activeBookId
                  /\ \A j \in DOMAIN s.books : s.books[j].id = s.activeBookId => i <= j
       IN s.books[i].rootFolderId
  ELSE NoId

BookRoots(s) == {s.books[i].rootFolderId : i \in DOMAIN s.books}

BookIds(s) == {s.books[i].id : i \in DOMAIN s.books}

\* Sidebar renderTree: the ids that are drawn as items below parentId
RECURSIVE VisibleFrom(_, _, _)
VisibleFrom(m, p, fuel) ==
  IF fuel = 0 \/ p \notin DOMAIN m THEN {}
  ELSE LET kids == {c \in Range(m[p].children) : c \in DOMAIN m}
       IN kids \cup UNION {IF m[c].type = "FOLDER" /\ m[c].isOpen
                           THEN VisibleFrom(m, c, fuel - 1) ELSE {} : c \in kids}

Visible(s) == VisibleFrom(s.fileMap, RootFolderId(s), MaxId)

\* the Sidebar is on screen
SidebarShown ==
  /\ app # "P2b"
  /\ IF app = "App" THEN rendered.view \in {"EDITOR", "STATS"} ELSE rendered.view = "EDITOR"

\* ---- React plumbing ----
\* One setState call: its updater turned `state` into new, using n fresh ids.
SetState(op, args, new, n) ==
  /\ state.view # "UNMOUNTED"
  /\ batch < (IF app = "App" THEN MaxBatch ELSE MaxBatchNew)
  /\ nextId + n - 1 <= MaxId
  /\ state' = new
  /\ nextId' = nextId + n
  /\ batch' = batch + 1
  /\ last' = [op |-> op, args |-> args]
  /\ UNCHANGED <<app, rendered, storage>>

\* One handler call that touches nothing but the AppState.
Apply(op, args, new, n) ==
  /\ SetState(op, args, new, n)
  /\ UNCHANGED ioVars

\* ---- src/App.tsx ----
\* updateFileContent: content.trim().split(/\s+/).filter(w => w.length > 0).length
wordCountOf(content) == Len(NonEmpty(Split(Trim(content))))

updateFileContent(id, content) ==
  /\ app = "App"
  /\ rendered.view \in {"EDITOR", "STATS"}
  /\ id = rendered.activeFileId
  /\ id \in DOMAIN rendered.fileMap
  /\ Apply("updateContent", <<id>>,
           [state EXCEPT !.fileMap =
              Put(@, id, [SpreadNode(@, id) EXCEPT
                            !.content = content,
                            !.wordCount = wordCountOf(content)])], 0)

\* createNode: the Sidebar passes the root folder of the active book.  With no
\* node under parentId the updater throws (parent.children of undefined).
\* an updater threw while React rendered: the component tree is unmounted
Crashed(prev) == [prev EXCEPT !.view = "UNMOUNTED"]

\* createNode; `parent.children` of a missing parent is a TypeError thrown
\* inside the updater
createNodeUpdater(prev, type, parentId, newId) ==
  LET parent == SpreadNode(prev.fileMap, parentId)
      newNode == IF type = "FOLDER" THEN NewFolder(parentId, <<>>, TRUE)
                 ELSE NewFile(parentId, <<>>, 0, TRUE, "absent")
  IN IF parentId \notin DOMAIN prev.fileMap THEN Crashed(prev)
     ELSE [prev EXCEPT
             !.fileMap = Put(Put(@, parentId,
                                 [parent EXCEPT !.children = Append(@, newId),
                                                !.isOpen = TRUE]),
                             newId, newNode),
             !.activeFileId = IF type = "FILE" THEN newId ELSE @]

\* the buttons of the Sidebar call createNode with rootFolderId
createNode(type, parentId) ==
  /\ app = "App"
  /\ SidebarShown
  /\ parentId = RootFolderId(rendered)
  /\ Apply("createNode", <<nextId, parentId>>,
           createNodeUpdater(state, type, parentId, nextId), 1)

\* cleanupChildren(nodeId, map): the ids the recursive walk deletes
RECURSIVE cleanupChildren(_, _, _)
cleanupChildren(ids, map, fuel) ==
  LET more == ids \cup UNION {Range(map[i].children) : i \in ids \cap DOMAIN map}
  IN IF fuel = 0 \/ more = ids THEN ids ELSE cleanupChildren(more, map, fuel - 1)

\* the updater of deleteNode (App.tsx lines 217-271)
deleteNodeUpdater(prev, nodeId) ==
  IF nodeId \notin DOMAIN prev.fileMap THEN prev
  ELSE LET node == prev.fileMap[nodeId] IN
    IF node.parentId = NoId
    THEN [prev EXCEPT !.fileMap = Remove(@, {nodeId}),
                      !.activeFileId = IF @ = nodeId THEN NoId ELSE @]
    ELSE IF node.parentId \notin DOMAIN prev.fileMap THEN prev
    ELSE LET parent == prev.fileMap[node.parentId]
             newChildren == Without(parent.children, nodeId)
             gone == cleanupChildren({nodeId}, prev.fileMap, MaxId)
             newFileMap == Put(Remove(prev.fileMap, gone), node.parentId,
                               [parent EXCEPT !.children = newChildren])
         IN [prev EXCEPT !.fileMap = newFileMap,
                         !.activeFileId =
                            IF @ \in DOMAIN newFileMap THEN @ ELSE NoId]

\* the guard of deleteNode reads the books of the rendered state
deleteNodeGuard(nodeId) == nodeId \in BookRoots(rendered)

deleteNode(nodeId) ==
  /\ app = "App"
  /\ SidebarShown
  /\ nodeId \in 1..(nextId - 1)
  /\ Apply("deleteNode", <<nodeId>>,
           IF deleteNodeGuard(nodeId) THEN state
           ELSE deleteNodeUpdater(state, nodeId), 0)

\* toggleFolder throws on an id the map lacks (isOpen of undefined)
toggleFolder(nodeId) ==
  /\ SidebarShown
  /\ nodeId \in Visible(rendered)
  /\ rendered.fileMap[nodeId].type = "FOLDER"
  /\ nodeId \in DOMAIN state.fileMap
  /\ Apply("toggleFolder", <<nodeId>>,
           [state EXCEPT !.fileMap[nodeId].isOpen = ~@], 0)

onSelectFile(id) ==
  /\ SidebarShown
  /\ id \in Visible(rendered)
  /\ rendered.fileMap[id].type = "FILE"
  /\ Apply("onSelectFile", <<id>>, [state EXCEPT !.activeFileId = id], 0)

createBook ==
  /\ app = "App"
  /\ SidebarShown
  /\ LET newBookId == nextId
         newRootId == nextId + 1
     IN Apply("createBook", <<newBookId, newRootId>>,
              [state EXCEPT
                 !.books = Append(@, NewBook(newBookId, newRootId)),
                 !.fileMap = Put(@, newRootId, NewFolder(NoId, <<>>, TRUE)),
                 !.activeBookId = newBookId,
                 !.activeFileId = NoId], 2)

\* the updater of deleteBook (App.tsx lines 332-343)
deleteBookUpdater(prev, bookId) ==
  LET newBooks == SelectSeq(prev.books, LAMBDA b : b.id # bookId)
  IN [prev EXCEPT
        !.books = newBooks,
        !.activeBookId = IF @ = bookId THEN newBooks[1].id ELSE @,
        !.activeFileId = IF prev.activeBookId = bookId THEN NoId ELSE @]

\* deleteBook: the guard reads the rendered books; with no book left the
\* updater throws (nextBook.id of undefined)
deleteBook(bookId) ==
  /\ app = "App"
  /\ SidebarShown
  /\ bookId = rendered.activeBookId
  /\ bookId # NoId
  /\ IF Len(rendered.books) <= 1
     THEN Apply("deleteBook", <<bookId>>, state, 0)
     ELSE /\ state.activeBookId = bookId =>
               SelectSeq(state.books, LAMBDA b : b.id # bookId) # <<>>
          /\ Apply("deleteBook", <<bookId>>, deleteBookUpdater(state, bookId), 0)

switchBook(bookId) ==
  /\ app = "App"
  /\ SidebarShown
  /\ bookId \in BookIds(rendered)
  /\ Apply("switchBook", <<bookId>>,
           [state EXCEPT !.activeBookId = bookId, !.activeFileId = NoId], 0)

\* new Set(array): the elements in first-occurrence order
RECURSIVE Dedup(_)
Dedup(s) ==
  IF s = <<>> THEN <<>>
  ELSE LET d == Dedup(SubSeq(s, 1, Len(s) - 1))
       IN IF Contains(d, s[Len(s)]) THEN d ELSE Append(d, s[Len(s)])

\* folder.fileIds.forEach of handleReorganize (App.tsx lines 423-432);
\* acc = [map, set (currentRootChildren), kids (newFolder.children)]
RECURSIVE moveFileIds(_, _, _)
moveFileIds(fileIds, folderId, acc) ==
  IF fileIds = <<>> THEN acc
  ELSE LET fileId == Head(fileIds) IN
       moveFileIds(Tail(fileIds), folderId,
         IF fileId \in DOMAIN acc.map
         THEN [map |-> [acc.map EXCEPT ![fileId].parentId = folderId],
               set |-> Without(acc.set, fileId),
               kids |-> Append(acc.kids, fileId)]
         ELSE acc)

\* folders.forEach of handleReorganize (App.tsx lines 408-433)
RECURSIVE reorganizeFolders(_, _, _, _, _)
reorganizeFolders(folders, rootId, map, set, next) ==
  IF folders = <<>> THEN [map |-> map, set |-> set]
  ELSE LET folderId == next
           withFolder == Put(map, folderId, NewFolder(rootId, <<>>, TRUE))
           moved == moveFileIds(Head(folders), folderId,
                                [map |-> withFolder,
                                 set |-> IF Contains(set, folderId) THEN set
                                         ELSE Append(set, folderId),
                                 kids |-> <<>>])
       IN reorganizeFolders(Tail(folders), rootId,
                            [moved.map EXCEPT ![folderId].children = moved.kids],
                            moved.set, next + 1)

\* the updater of handleReorganize (App.tsx lines 403-441)
handleReorganizeUpdater(prev, folders, rootId, next) ==
  LET root == prev.fileMap[rootId]
      done == reorganizeFolders(folders, rootId, prev.fileMap,
                                Dedup(root.children), next)
  IN [prev EXCEPT !.fileMap = Put(done.map, rootId,
                                  [root EXCEPT !.children = done.set])]

\* the file ids a reply of the folder-suggestion service may name: files of
\* the rendered map, and ids handed out earlier that no longer resolve
SuggestedIds ==
  {i \in 1..(nextId - 1) :
     i \notin DOMAIN rendered.fileMap \/ rendered.fileMap[i].type = "FILE"}

SeqsUpTo(S, n) == UNION {[1..k -> S] : k \in 0..n}

\* handleReorganize(folders): the bulk reorganize of App.tsx.  A root missing
\* from prev makes the updater throw (root.children of undefined).
handleReorganizeBulk(folders) ==
  /\ app = "App"
  /\ SidebarShown
  /\ RootFolderId(rendered) # NoId
  /\ Apply("bulkReorganize", folders,
           IF RootFolderId(rendered) \in DOMAIN state.fileMap
           THEN handleReorganizeUpdater(state, folders, RootFolderId(rendered), nextId)
           ELSE Crashed(state),
           Len(folders))

\* handleImport, one text file: reader.onload appends it to the root
handleImport(content) ==
  /\ app = "App"
  /\ SidebarShown
  /\ RootFolderId(rendered) # NoId
  /\ RootFolderId(rendered) \in DOMAIN state.fileMap
  /\ LET rootId == RootFolderId(rendered)
         newId == nextId
     IN Apply("handleImport", <<newId, rootId>>,
              [state EXCEPT
                 !.fileMap = Put([@ EXCEPT ![rootId].children = Append(@, newId)],
                                 newId,
                                 NewFile(rootId, content, Len(Split(content)),
                                         FALSE, "absent"))], 1)

handleLogin ==
  /\ app = "App"
  /\ rendered.view = "LANDING"
  /\ Apply("handleLogin", <<>>, [state EXCEPT !.user = TRUE, !.view = "EDITOR"], 0)

handleLogout ==
  /\ app = "App"
  /\ rendered.view \in {"EDITOR", "STATS"}
  /\ Apply("handleLogout", <<>>, [state EXCEPT !.user = FALSE, !.view = "LANDING"], 0)

\* ---- src/unnamed/part_002, lines 1-1236 ----
handleStart ==
  /\ app \in {"P1a", "P1b", "P2a"}
  /\ rendered.view = "LANDING"
  /\ Apply("handleStart", <<>>,
           [state EXCEPT !.view = "EDITOR", !.activeFileId = NoId], 0)

\* handleExit writes back the state it closed over
handleExit ==
  /\ app = "P2a"
  /\ rendered.view = "EDITOR"
  /\ Apply("handleExit", <<>>,
           [rendered EXCEPT !.view = "LANDING", !.activeFileId = NoId], 0)

\* ensureActiveContext: [rootId, newState, used (fresh ids taken)]
ensureActiveContext(prevState, next) ==
  IF prevState.activeBookId = NoId \/ RootFolderId(prevState) = NoId
  THEN [rootId |-> next + 1,
        newState |-> [prevState EXCEPT
                        !.books = Append(@, NewBook(next, next + 1)),
                        !.fileMap = Put(@, next + 1, NewFolder(NoId, <<>>, TRUE)),
                        !.activeBookId = next],
        used |-> 2]
  ELSE [rootId |-> RootFolderId(prevState), newState |-> prevState, used |-> 0]

\* the shared tail of handleCreateNew, handleLegacyFileChange and
\* handleOpenFile: attach newFile to the root of the active context.  The
\* in-place writes to newState.fileMap are modelled by the map they produce;
\* a root the map lacks makes the updater throw (root.children of undefined).
attachToRoot(prev, next, content, wordCount, fileHandle) ==
  LET ctx == ensureActiveContext(prev, next)
      newId == next + ctx.used
      root == ctx.newState.fileMap[ctx.rootId]
  IN [ctx.newState EXCEPT
        !.fileMap = Put(Put(@, ctx.rootId,
                            [root EXCEPT !.children = Append(@, newId),
                                         !.isOpen = TRUE]),
                        newId, NewFile(ctx.rootId, content, wordCount, FALSE, fileHandle)),
        !.activeFileId = newId,
        !.sidebarOpen = TRUE]

CanAttach(prev, next) ==
  LET ctx == ensureActiveContext(prev, next)
  IN ctx.rootId \in DOMAIN ctx.newState.fileMap

handleCreateNew ==
  /\ app \in {"P1a", "P1b", "P2a"}
  /\ rendered.view = "EDITOR"
  /\ CanAttach(state, nextId)
  /\ Apply("handleCreateNew", <<>>,
           attachToRoot(state, nextId, <<>>, 0, "absent"),
           1 + ensureActiveContext(state, nextId).used)

\* handleOpenFile: showOpenFilePicker gave a handle
handleOpenFile(content) ==
  /\ app \in {"P1b", "P2a"}
  /\ rendered.view = "EDITOR"
  /\ CanAttach(state, nextId)
  /\ Apply("handleOpenFile", <<>>,
           attachToRoot(state, nextId, content, Len(Split(content)), "handle"),
           1 + ensureActiveContext(state, nextId).used)

\* handleLegacyFileChange: the <input type=file> fallback, no handle
handleLegacyFileChange(content) ==
  /\ app = "P2a"
  /\ rendered.view = "EDITOR"
  /\ CanAttach(state, nextId)
  /\ Apply("handleLegacyFileChange", <<>>,
           attachToRoot(state, nextId, content, Len(Split(content)), "absent"),
           1 + ensureActiveContext(state, nextId).used)

handleCreateBook ==
  /\ app = "P2a"
  /\ SidebarShown
  /\ Apply("handleCreateBook", <<nextId, nextId + 1>>,
           [state EXCEPT
              !.books = Append(@, NewBook(nextId, nextId + 1)),
              !.fileMap = Put(@, nextId + 1, NewFolder(NoId, <<>>, TRUE)),
              !.activeBookId = nextId,
              !.sidebarOpen = TRUE], 2)

\* a directory handed to handleOpenFolder: a sequence of entries
FileEntry == [kind |-> "file", entries |-> <<>>]

DirEntry(entries) == [kind |-> "directory", entries |-> entries]

DirShapes ==
  { <<FileEntry>>,
    <<DirEntry(<<FileEntry>>)>>,
    <<DirEntry(<<>>), FileEntry>> }

\* scanDir: [map, kids (direct children, in entry order), next, first]
RECURSIVE scanDir(_, _, _, _, _)
scanDir(entries, parentId, next, first, content) ==
  IF entries = <<>>
  THEN [map |-> EmptyMap, kids |-> <<>>, next |-> next, first |-> first]
  ELSE LET e == Head(entries) IN
    IF e.kind = "file"
    THEN LET rest == scanDir(Tail(entries), parentId, next + 1,
                             IF first = NoId THEN next ELSE first, content)
         IN [map |-> Put(rest.map, next,
                         NewFile(parentId, content, Len(Split(content)),
                                 FALSE, "handle")),
             kids |-> <<next>> \o rest.kids,
             next |-> rest.next, first |-> rest.first]
    ELSE LET sub == scanDir(e.entries, next, next + 1, first, content)
             rest == scanDir(Tail(entries), parentId, sub.next, sub.first, content)
             both == [i \in (DOMAIN sub.map) \cup (DOMAIN rest.map) |->
                        IF i \in DOMAIN sub.map THEN sub.map[i] ELSE rest.map[i]]
         IN [map |-> Put(both, next, NewFolder(parentId, sub.kids, FALSE)),
             kids |-> <<next>> \o rest.kids,
             next |-> rest.next, first |-> rest.first]

handleOpenFolder(dir, content) ==
  /\ app = "P2a"
  /\ rendered.view = "EDITOR"
  /\ LET bookId == nextId
         rootId == nextId + 1
         scan == scanDir(dir, rootId, nextId + 2, NoId, content)
         nodes == Put(scan.map, rootId, NewFolder(NoId, scan.kids, TRUE))
     IN Apply("handleOpenFolder", <<bookId, rootId>>,
              [state EXCEPT
                 !.books = Append(@, NewBook(bookId, rootId)),
                 !.fileMap = [i \in (DOMAIN @) \cup (DOMAIN nodes) |->
                                IF i \in DOMAIN nodes THEN nodes[i] ELSE @[i]],
                 !.activeBookId = bookId,
                 !.activeFileId = scan.first,
                 !.sidebarOpen = TRUE],
              scan.next - nextId)

handleCreateNodeUpdater(prev, type, parentId, newId) ==
  LET newNode == IF type = "FOLDER" THEN NewFolder(parentId, <<>>, TRUE)
                 ELSE NewFile(parentId, <<>>, 0, TRUE, "absent")
  IN IF parentId \notin DOMAIN prev.fileMap THEN prev
     ELSE [prev EXCEPT
             !.fileMap = Put(Put(@, parentId,
                                 [@[parentId] EXCEPT
                                    !.children = Append(@, newId),
                                    !.isOpen = TRUE]),
                             newId, newNode),
             !.activeFileId = IF type = "FILE" THEN newId ELSE @]

handleCreateNode(type, parentId) ==
  /\ app = "P2a"
  /\ SidebarShown
  /\ parentId = RootFolderId(rendered)
  /\ Apply("createNode", <<nextId, parentId>>,
           handleCreateNodeUpdater(state, type, parentId, nextId), 1)

\* the updater of handleDeleteNode (part_002 lines 809-822)
handleDeleteNodeUpdater(prev, id) ==
  LET parentId == IF id \in DOMAIN prev.fileMap THEN prev.fileMap[id].parentId
                  ELSE NoId
  IN IF parentId = NoId THEN prev
     ELSE LET newMap == Remove(prev.fileMap, {id})
          IN [prev EXCEPT
                !.fileMap = IF parentId \in DOMAIN newMap
                            THEN [newMap EXCEPT ![parentId].children = Without(@, id)]
                            ELSE newMap,
                !.activeFileId = IF @ = id THEN NoId ELSE @]

handleDeleteNode(id) ==
  /\ app = "P2a"
  /\ SidebarShown
  /\ id \in 1..(nextId - 1)
  /\ Apply("deleteNode", <<id>>, handleDeleteNodeUpdater(state, id), 0)

\* handleDeleteBook: prev.books[0] is read before the filter
handleDeleteBook(id) ==
  /\ app = "P2a"
  /\ SidebarShown
  /\ id = rendered.activeBookId
  /\ id # NoId
  /\ Apply("deleteBook", <<id>>,
           [state EXCEPT
              !.books = SelectSeq(@, LAMBDA b : b.id # id),
              !.activeBookId =
                 IF @ = id
                 THEN (IF state.books # <<>> THEN state.books[1].id ELSE NoId)
                 ELSE @], 0)

onSwitchBook(id) ==
  /\ app = "P2a"
  /\ SidebarShown
  /\ id \in BookIds(rendered)
  /\ Apply("switchBook", <<id>>, [state EXCEPT !.activeBookId = id], 0)

\* a variant of the updater that puts the moved id first in the target
handleReorganizeMovePrepend(prev, sourceId, targetParentId) ==
  IF sourceId \notin DOMAIN prev.fileMap THEN prev
  ELSE LET sourceNode == prev.fileMap[sourceId]
           oldParentId == sourceNode.parentId
       IN IF oldParentId = NoId \/ oldParentId = targetParentId THEN prev
          ELSE LET m1 == IF oldParentId \in DOMAIN prev.fileMap
                         THEN [prev.fileMap EXCEPT
                                 ![oldParentId].children = Without(@, sourceId)]
                         ELSE prev.fileMap
                   m2 == IF targetParentId \in DOMAIN m1
                         THEN [m1 EXCEPT
                                 ![targetParentId].children = <<sourceId>> \o @,
                                 ![targetParentId].isOpen = TRUE]
                         ELSE m1
               IN [prev EXCEPT
                     !.fileMap = Put(m2, sourceId,
                                     [sourceNode EXCEPT !.parentId = targetParentId])]

\* the updater of handleReorganize(sourceId, targetParentId) (lines 834-869)
handleReorganizeMove(prev, sourceId, targetParentId) ==
  IF sourceId \notin DOMAIN prev.fileMap THEN prev
  ELSE LET sourceNode == prev.fileMap[sourceId]
           oldParentId == sourceNode.parentId
       IN IF oldParentId = NoId \/ oldParentId = targetParentId THEN prev
          ELSE LET m1 == IF oldParentId \in DOMAIN prev.fileMap
                         THEN [prev.fileMap EXCEPT
                                 ![oldParentId].children = Without(@, sourceId)]
                         ELSE prev.fileMap
                   m2 == IF targetParentId \in DOMAIN m1
                         THEN [m1 EXCEPT
                                 ![targetParentId].children = Append(@, sourceId),
                                 ![targetParentId].isOpen = TRUE]
                         ELSE m1
               IN [prev EXCEPT
                     !.fileMap = Put(m2, sourceId,
                                     [sourceNode EXCEPT !.parentId = targetParentId])]

\* SidebarNew handleDragEnd: the target is the folder dropped on, or the parent
\* of the file dropped on
dragTarget(fileMap, overId) ==
  IF fileMap[overId].type = "FOLDER" THEN overId ELSE fileMap[overId].parentId

\* handleDragEnd returns early, or calls onReorganize(activeId, targetParentId)
handleDragEnd(activeId, overId) ==
  /\ app = "P2a"
  /\ SidebarShown
  /\ activeId \in Visible(rendered)
  /\ overId \in Visible(rendered)
  /\ LET targetParentId == dragTarget(rendered.fileMap, overId)
     IN IF activeId = overId \/ targetParentId = NoId
        THEN Apply("handleDragEnd", <<>>, state, 0)
        ELSE Apply("moveNode", <<activeId, targetParentId>>,
                   handleReorganizeMove(state, activeId, targetParentId), 0)

\* FindReplace onReplace (part_002 lines 1098-1109): the new text is stored,
\* the other fields of the node are kept
onReplace(newContent) ==
  /\ app = "P2a"
  /\ rendered.view = "EDITOR"
  /\ rendered.activeFileId \in DOMAIN rendered.fileMap
  /\ Apply("onReplace", <<rendered.activeFileId>>,
           [state EXCEPT !.fileMap =
              Put(@, rendered.activeFileId,
                  [SpreadNode(@, rendered.activeFileId) EXCEPT !.content = newContent])], 0)

\* ---- tags (part_002 lines 872-883, SidebarNew.tsx lines 352-364) ----
\* the labels typed into the tag input
Tags == {"t1", "t2"}

\* the updater of handleUpdateTags
handleUpdateTags(prev, id, tags) ==
  [prev EXCEPT !.fileMap = Put(@, id, [SpreadNode(@, id) EXCEPT !.tags = tags])]

\* handleAddTag of the Sidebar: the item of any visible node has the button
handleAddTag(nodeId, tag) ==
  /\ app = "P2a"
  /\ SidebarShown
  /\ nodeId \in Visible(rendered)
  /\ LET currentTags == rendered.fileMap[nodeId].tags
     IN /\ ~Contains(currentTags, tag)
        /\ Apply("addTag", <<nodeId, tag>>,
                 handleUpdateTags(state, nodeId, Append(currentTags, tag)), 0)

handleRemoveTag(nodeId, tag) ==
  /\ app = "P2a"
  /\ SidebarShown
  /\ nodeId \in Visible(rendered)
  /\ LET currentTags == rendered.fileMap[nodeId].tags
     IN /\ Contains(currentTags, tag)
        /\ Apply("removeTag", <<nodeId, tag>>,
                 handleUpdateTags(state, nodeId, Without(currentTags, tag)), 0)

\* ---- the props onCreateNode / onReorganize, called with any ids ----
\* SidebarProps.onCreateNode(type, parentId): createNode of App.tsx,
\* handleCreateNode of part_002
onCreateNode(type, parentId) ==
  /\ app \in {"App", "P2a"}
  /\ SidebarShown
  /\ Apply("createNode", <<nextId, parentId>>,
           IF app = "App" THEN createNodeUpdater(state, type, parentId, nextId)
           ELSE handleCreateNodeUpdater(state, type, parentId, nextId), 1)

\* SidebarProps.onReorganize(sourceId, targetParentId): handleReorganize of
\* part_002
onReorganize(sourceId, targetParentId) ==
  /\ app = "P2a"
  /\ SidebarShown
  /\ Apply("moveNode", <<sourceId, targetParentId>>,
           handleReorganizeMove(state, sourceId, targetParentId), 0)

\* ---- the editor's onChange ----
\* part_001 line 796 (and line 1430): wordCount: c.split(/\s+/).length
onChangePart001(c) ==
  /\ app \in {"P1a", "P1b"}
  /\ rendered.view = "EDITOR"
  /\ rendered.activeFileId \in DOMAIN rendered.fileMap
  /\ Apply("updateContent", <<rendered.activeFileId>>,
           [state EXCEPT !.fileMap =
              Put(@, rendered.activeFileId,
                  [SpreadNode(@, rendered.activeFileId) EXCEPT
                     !.content = c, !.wordCount = Len(Split(c))])], 0)

\* part_002 lines 1126-1141: c.split(/\s+/).filter(w => w.length > 0).length
newWordCount(c) == Len(NonEmpty(Split(c)))

onChangePart002(c) ==
  /\ app = "P2a"
  /\ rendered.view = "EDITOR"
  /\ rendered.activeFileId \in DOMAIN rendered.fileMap
  /\ Apply("updateContent", <<rendered.activeFileId>>,
           [state EXCEPT !.fileMap =
              Put(@, rendered.activeFileId,
                  [SpreadNode(@, rendered.activeFileId) EXCEPT
                     !.content = c, !.wordCount = newWordCount(c)])], 0)

\* ---- src/unnamed/part_002, lines 1238-1710: one file at a time ----
handleStartFile ==
  /\ app = "P2b"
  /\ rendered.view = "LANDING"
  /\ Apply("handleStart", <<>>, [state EXCEPT !.view = "EDITOR"], 0)

\* line 1612: the title button of the navigation bar
backToLanding ==
  /\ app = "P2b"
  /\ rendered.view = "EDITOR"
  /\ Apply("backToLanding", <<>>, [state EXCEPT !.view = "LANDING"], 0)

\* the decision screen is drawn when the rendered state has no active file
DecisionScreen ==
  /\ app = "P2b"
  /\ rendered.view = "EDITOR"
  /\ ~(rendered.activeFileId # NoId /\ rendered.activeFileId \in DOMAIN rendered.fileMap)

handleCreateNewFile ==
  /\ DecisionScreen
  /\ Apply("handleCreateNew", <<>>,
           [state EXCEPT
              !.fileMap = Put(EmptyMap, nextId, NewFile(NoId, <<>>, 0, FALSE, "absent")),
              !.activeFileId = nextId], 1)

handleOpenFileSingle(content) ==
  /\ DecisionScreen
  /\ Apply("handleOpenFile", <<>>,
           [state EXCEPT
              !.fileMap = Put(EmptyMap, nextId,
                              NewFile(NoId, content, Len(Split(content)), FALSE, "handle")),
              !.activeFileId = nextId], 1)

updateContent(content) ==
  /\ app = "P2b"
  /\ rendered.view = "EDITOR"
  /\ rendered.activeFileId # NoId
  /\ rendered.activeFileId \in DOMAIN rendered.fileMap
  /\ Apply("updateContent", <<state.activeFileId, content>>,
           [state EXCEPT !.fileMap =
              Put(@, state.activeFileId,
                  [SpreadNode(@, state.activeFileId) EXCEPT
                     !.content = content, !.wordCount = wordCountOf(content)])], 0)

\* ---- proofreading (src/App.tsx lines 511-549) ----
\* proofreadResult is null and no request is pending
NoProofread == [pc |-> "idle"]

\* what the proofreading service answers
CorrectedTexts == {<<" ">>}

\* String.prototype.substring(from, to) on a sequence of characters
substring(str, from, to) ==
  LET lo == IF from < Len(str) THEN from ELSE Len(str)
      hi == IF to < Len(str) THEN to ELSE Len(str)
  IN SubSeq(str, lo + 1, hi)

\* a step of the proofreading that leaves the AppState alone
ProofreadStep(op, args) ==
  /\ batch = 0
  /\ last' = [op |-> op, args |-> args]
  /\ UNCHANGED <<app, state, rendered, nextId, batch, storage, saving, disk, permissionMessage>>

\* handleProofread up to the await; start / end: the selection of the editor.
\* fileId is not part of the code's record: it names the file of the request.
handleProofread(start, end) ==
  /\ app = "App"
  /\ rendered.view = "EDITOR"
  /\ ~rendered.focusMode
  /\ proofread.pc # "pending"
  /\ rendered.activeFileId \in DOMAIN rendered.fileMap
  /\ LET content == SpreadNode(rendered.fileMap, rendered.activeFileId).content
     IN /\ content # <<>>
        /\ 0 <= start /\ start < end /\ end <= Len(content)
        /\ Trim(substring(content, start, end)) # <<>>
        /\ proofread' = [pc |-> "pending", fileId |-> rendered.activeFileId,
                         original |-> substring(content, start, end),
                         start |-> start, end |-> end, corrected |-> <<>>]
  /\ ProofreadStep("handleProofread", <<rendered.activeFileId, start, end>>)

\* proofreadText settles: setProofreadResult, or the alert of the catch
proofreadTextReturns(ok, corrected) ==
  /\ proofread.pc = "pending"
  /\ proofread' = IF ok THEN [proofread EXCEPT !.pc = "result", !.corrected = corrected]
                  ELSE NoProofread
  /\ ProofreadStep("proofreadText", <<ok>>)

\* the Discard button and the close button of the panel
discardProofread ==
  /\ proofread.pc = "result"
  /\ proofread' = NoProofread
  /\ ProofreadStep("discardProofread", <<>>)

\* applyProofread: the Apply button of the panel
applyProofread ==
  /\ app = "App"
  /\ proofread.pc = "result"
  /\ rendered.activeFileId \in DOMAIN rendered.fileMap
  /\ LET id == rendered.activeFileId
         currentContent == rendered.fileMap[id].content
         before == substring(currentContent, 0, proofread.start)
         after == substring(currentContent, proofread.end, Len(currentContent))
         newContent == before \o proofread.corrected \o after
     IN SetState("applyProofread", <<id, proofread>>,
                 [state EXCEPT !.fileMap =
                    Put(@, id, [SpreadNode(@, id) EXCEPT
                                  !.content = newContent,
                                  !.wordCount = wordCountOf(newContent)])], 0)
  /\ proofread' = NoProofread
  /\ UNCHANGED <<saving, disk, permissionMessage>>

\* ---- saveFile (part_002 lines 233-319 and 1348-1429) ----
\* no saveFile call is in flight
NoSave == [pc |-> "idle"]

\* what requestPermission may settle with; "error": the promise rejects
RequestResults == {"granted", "denied", "error"}

\* a save step that leaves the AppState alone
SaveStep(op, args) ==
  /\ batch = 0
  /\ last' = [op |-> op, args |-> args]
  /\ UNCHANGED <<app, state, rendered, nextId, batch, storage>>

\* saveFile(true) up to its first await; fileNode is read from the state the
\* handler closed over.  hasPicker: window.showSaveFilePicker is a function
saveFile(hasPicker) ==
  /\ app # "App"
  /\ rendered.view = "EDITOR"
  /\ saving = NoSave
  /\ rendered.activeFileId # NoId
  /\ rendered.activeFileId \in DOMAIN rendered.fileMap
  /\ hasPicker \/ app \in {"P1a", "P1b", "P2a"}
  /\ LET fileNode == rendered.fileMap[rendered.activeFileId]
         call == [id |-> rendered.activeFileId, content |-> fileNode.content,
                  picked |-> FALSE]
     IN /\ saving' =
             IF fileNode.fileHandle = "absent"
             THEN IF hasPicker THEN [pc |-> "picker"] @@ call ELSE NoSave
             ELSE IF fileNode.fileHandle = "emptyObject" THEN NoSave
             ELSE [pc |-> "query"] @@ call
        /\ SaveStep(IF fileNode.fileHandle = "absent" /\ ~hasPicker THEN "download"
                    ELSE IF fileNode.fileHandle = "emptyObject" THEN "saveFailed"
                    ELSE "saveFile",
                    <<rendered.activeFileId>>)
  /\ UNCHANGED <<disk, permissionMessage, proofread>>

\* showSaveFilePicker settles: the user picked a file, or cancelled
showSaveFilePickerReturns(picked) ==
  /\ saving.pc = "picker"
  /\ batch = 0
  /\ IF picked
     THEN /\ SetState("saveFilePicked", <<saving.id>>,
                      [state EXCEPT !.fileMap =
                         Put(@, saving.id,
                             [SpreadNode(@, saving.id) EXCEPT
                                !.fileHandle = "handle", !.title = "picked"])], 0)
          /\ saving' = [saving EXCEPT !.pc = "query", !.picked = TRUE]
     ELSE /\ SaveStep("saveCancelled", <<saving.id>>)
          /\ saving' = NoSave
  /\ UNCHANGED <<disk, permissionMessage, proofread>>

\* verifyPermission, line 237: queryPermission settles.  The handle that
\* showSaveFilePicker returned has the readwrite permission granted.
queryPermissionReturns(answer) ==
  /\ saving.pc = "query"
  /\ saving.picked => answer = "granted"
  /\ SaveStep("queryPermission", <<answer, saving.id>>)
  /\ saving' = [saving EXCEPT !.pc = IF answer = "granted" THEN "write" ELSE "request"]
  /\ permissionMessage' = (permissionMessage \/ answer # "granted")
  /\ UNCHANGED <<disk, proofread>>

\* a variant of verifyPermission that returns true whatever the user chose
verifyPermissionAlways(result) == result \in {"granted", "denied"}

\* verifyPermission, line 242: return result === 'granted'
verifyPermission(result) == result = "granted"

\* verifyPermission, lines 240-242: requestPermission settles; when it
\* rejects, the exception passes line 241 and is caught in saveFile
requestPermissionReturns(result) ==
  /\ saving.pc = "request"
  /\ SaveStep("requestPermission", <<result, saving.id>>)
  /\ permissionMessage' = IF result = "error" THEN permissionMessage ELSE FALSE
  /\ saving' = IF verifyPermission(result) THEN [saving EXCEPT !.pc = "write"]
               ELSE NoSave
  /\ UNCHANGED <<disk, proofread>>

\* createWritable / write / close: the text of fileNode goes to the file;
\* ok = FALSE: one of them throws and saveFile logs the error
writeFile(ok) ==
  /\ saving.pc = "write"
  /\ SaveStep(IF ok THEN "saveWrite" ELSE "saveFailed", <<saving.id, saving.content>>)
  /\ disk' = IF ok THEN Put(disk, saving.id, saving.content) ELSE disk
  /\ saving' = NoSave
  /\ UNCHANGED <<permissionMessage, proofread>>

\* ---- the auto-save timer (part_002 lines 321-347 and 1438-1469) ----
\* what queryPermission({mode: 'readwrite'}) may answer
PermissionStates == {"granted", "prompt", "denied"}

\* a variant of the tick that goes through verifyPermission
autoSaveEffectsVerify(s, answer) ==
  IF s.activeFileId = NoId \/ s.activeFileId \notin DOMAIN s.fileMap THEN {}
  ELSE LET fileHandle == s.fileMap[s.activeFileId].fileHandle
       IN IF fileHandle = "absent" THEN {}
          ELSE IF fileHandle = "emptyObject" THEN {"TypeError"}
          ELSE IF answer = "granted"
               THEN {"queryPermission", "createWritable", "write"}
               ELSE {"queryPermission", "requestPermission"}

\* the calls one tick makes on the state s of stateRef.current; a handle
\* that came back from JSON as {} has no queryPermission: the TypeError is
\* caught and logged
autoSaveEffects(s, answer) ==
  IF s.activeFileId = NoId \/ s.activeFileId \notin DOMAIN s.fileMap THEN {}
  ELSE LET fileHandle == s.fileMap[s.activeFileId].fileHandle
       IN IF fileHandle = "absent" THEN {}
          ELSE IF fileHandle = "emptyObject" THEN {"TypeError"}
          ELSE IF answer = "granted"
               THEN {"queryPermission", "createWritable", "write"}
               ELSE {"queryPermission"}

\* the interval fires; stateRef.current is the state of the last render
autoSaveTick ==
  /\ app \in {"P2a", "P2b"}
  /\ batch = 0
  /\ rendered.view # "UNMOUNTED"
  /\ \E answer \in PermissionStates :
       LET effects == autoSaveEffects(rendered, answer)
       IN /\ last' = [op |-> "autoSave", args |-> <<effects, answer, rendered>>]
          /\ disk' = IF "write" \in effects
                     THEN Put(disk, rendered.activeFileId,
                              rendered.fileMap[rendered.activeFileId].content)
                     ELSE disk
  /\ UNCHANGED <<app, state, rendered, nextId, batch, storage, saving, permissionMessage,
                 proofread>>

\* ---- session flags ----
toggleDarkMode ==
  /\ app \in {"App", "P1a"} \/ rendered.view = "LANDING"
  /\ Apply("toggleDarkMode", <<>>, [state EXCEPT !.darkMode = ~@], 0)

toggleFocusMode ==
  /\ rendered.view \in {"EDITOR", "STATS"}
  /\ Apply("toggleFocusMode", <<>>, [state EXCEPT !.focusMode = ~@], 0)

toggleSidebar ==
  /\ app # "P2b"
  /\ rendered.view \in {"EDITOR", "STATS"}
  /\ Apply("toggleSidebar", <<>>, [state EXCEPT !.sidebarOpen = ~@], 0)

toggleStats ==
  /\ app = "App"
  /\ rendered.view \in {"EDITOR", "STATS"}
  /\ Apply("toggleStats", <<>>,
           [state EXCEPT !.view = IF @ = "STATS" THEN "EDITOR" ELSE "STATS"], 0)

\* ---- persistence ----
HasPersistEffect(a) == a \in {"App", "P1b", "P2b"}

NoSnapshot == <<>>

\* a variant that stringifies the node as it is in every component
stringifyNodeWithHandle(a, node) ==
  [node EXCEPT !.fileHandle = IF @ = "absent" THEN "absent" ELSE "emptyObject"]

\* JSON.stringify of a node: undefined fields vanish; part_001 lines 947-955
\* drop fileHandle first, App.tsx line 101 stringifies the node as it is (a
\* FileSystemFileHandle has no enumerable property: it becomes {})
stringifyNode(a, node) ==
  [node EXCEPT !.fileHandle =
     IF a = "P1b" THEN "absent"
     ELSE IF @ = "absent" THEN "absent" ELSE "emptyObject"]

\* the persist effect: the text put under 'better-writer-state'
stateToSave(a, s) ==
  <<[s EXCEPT !.fileMap = [i \in DOMAIN s.fileMap |-> stringifyNode(a, s.fileMap[i])]]>>

persist(a, s, old) == IF HasPersistEffect(a) THEN stateToSave(a, s) ELSE old

\* getInitialState (part_001 lines 894-911, part_002 lines 34-51 and lines
\* 1255-1271) and the useState initializer of App.tsx (lines 62-84); dark:
\* prefers-color-scheme
getInitialState(a, savedState, dark) ==
  LET initialState == IF savedState # NoSnapshot THEN savedState[1]
                      ELSE defaultState(a, dark)
  IN IF a = "App"
     THEN IF initialState.user /\ initialState.view = "LANDING"
          THEN [initialState EXCEPT !.view = "EDITOR"] ELSE initialState
     ELSE IF a = "P2b"
     THEN [initialState EXCEPT !.view = "LANDING", !.activeFileId = NoId]
     ELSE IF initialState.view = "EDITOR"
          THEN [initialState EXCEPT !.sidebarOpen = TRUE] ELSE initialState

\* React commits: the handlers close over the new state, the effects run
Render ==
  /\ batch > 0
  /\ rendered' = state
  /\ batch' = 0
  /\ storage' = IF state.view = "UNMOUNTED" THEN storage ELSE persist(app, state, storage)
  /\ UNCHANGED <<app, state, nextId, last>>
  /\ UNCHANGED ioVars

\* a text in the slot that JSON.parse rejects
CorruptText == <<"{", "{">>

\* JSON.parse(savedState) throws a SyntaxError
JSONparseThrows(savedState) == Len(savedState) = 2

\* the component whose state initializer threw: nothing is mounted
Unmounted(a) == [defaultState(a, FALSE) EXCEPT !.view = "UNMOUNTED"]

\* the page is loaded again; an exception of the initializer leaves the
\* page without the component, and no effect runs
Reload ==
  /\ batch = 0
  /\ IF JSONparseThrows(storage)
     THEN /\ state' = Unmounted(app)
          /\ rendered' = Unmounted(app)
          /\ storage' = storage
     ELSE \E dark \in BOOLEAN :
            LET s == getInitialState(app, storage, dark)
            IN /\ state' = s
               /\ rendered' = s
               /\ storage' = persist(app, s, storage)
  /\ last' = [op |-> "reload", args |-> <<state, storage>>]
  /\ saving' = NoSave
  /\ permissionMessage' = FALSE
  /\ proofread' = NoProofread
  /\ UNCHANGED <<app, nextId, batch, disk>>

\* something else than the persist effect leaves unparseable text in the slot
corruptSnapshot ==
  /\ batch = 0
  /\ ~JSONparseThrows(storage)
  /\ storage' = CorruptText
  /\ UNCHANGED <<app, state, rendered, nextId, batch, last>>
  /\ UNCHANGED ioVars

\* ---- specifications ----
Boot(apps, darks) ==
  /\ app \in apps
  /\ \E dark \in darks :
       /\ state = getInitialState(app, NoSnapshot, dark)
       /\ storage = persist(app, state, NoSnapshot)
  /\ rendered = state
  /\ nextId = FirstId(app)
  /\ batch = 0
  /\ last = [op |-> "init", args |-> <<>>]
  /\ saving = NoSave
  /\ disk = EmptyMap
  /\ permissionMessage = FALSE
  /\ proofread = NoProofread

TreeTexts == {<<"a">>}

\* the texts typed into a file that is being saved
FileTexts == {<<>>, <<"a">>}

Texts == SeqsUpTo(Chars, MaxLen)

\* the text the editor hands to onChange
EditorTexts == Texts

BulkRequests == SeqsUpTo(SeqsUpTo(SuggestedIds, MaxFileIds), MaxFolders) \ {<<>>}

\* the document tree of src/App.tsx
InitApp == Boot({"App"}, {FALSE})

NextApp ==
  \/ Render
  \/ handleLogin
  \/ \E type \in {"FOLDER", "FILE"} : createNode(type, RootFolderId(rendered))
  \/ \E id \in Ids : deleteNode(id)
  \/ \E id \in Ids : toggleFolder(id)
  \/ \E id \in Ids : onSelectFile(id)
  \/ createBook
  \/ \E id \in Ids : deleteBook(id)
  \/ \E id \in Ids : switchBook(id)
  \/ \E folders \in BulkRequests : handleReorganizeBulk(folders)
  \/ \E content \in TreeTexts : handleImport(content)

SpecApp == InitApp /\ [][NextApp]_vars

\* the document tree of part_002 (lines 1-1236)
Init == Boot({"P2a"}, {FALSE})

Next ==
  \/ Render
  \/ handleStart
  \/ \E type \in {"FOLDER", "FILE"} : handleCreateNode(type, RootFolderId(rendered))
  \/ \E id \in Ids : handleDeleteNode(id)
  \/ \E id \in Ids : toggleFolder(id)
  \/ \E id \in Ids : onSelectFile(id)
  \/ handleCreateBook
  \/ \E id \in Ids : handleDeleteBook(id)
  \/ \E id \in Ids : onSwitchBook(id)
  \/ handleCreateNew
  \/ \E dir \in DirShapes, content \in TreeTexts : handleOpenFolder(dir, content)
  \/ \E a \in Ids, o \in Ids : handleDragEnd(a, o)

Spec == Init /\ [][Next]_vars

\* the editor: the components whose onChange computes the word count
InitEdit == Boot({"App", "P1a", "P2a"}, {FALSE})

NextEdit ==
  \/ Render
  \/ handleLogin
  \/ handleStart
  \/ handleExit
  \/ handleCreateNew
  \/ \E content \in TreeTexts : handleLegacyFileChange(content)
  \/ \E content \in EditorTexts : updateFileContent(rendered.activeFileId, content)
  \/ \E id \in Ids : deleteNode(id)
  \/ \E c \in EditorTexts : onChangePart001(c)
  \/ \E c \in EditorTexts : onChangePart002(c)

SpecEdit == InitEdit /\ [][NextEdit]_vars

\* the session: the components that write 'better-writer-state'
InitSession == Boot({"App", "P1b"}, BOOLEAN)

NextSession ==
  \/ Render
  \/ Reload
  \/ handleLogin
  \/ handleLogout
  \/ handleStart
  \/ handleCreateNew
  \/ \E content \in TreeTexts : handleOpenFile(content)
  \/ \E id \in Ids : onSelectFile(id)
  \/ toggleDarkMode
  \/ toggleFocusMode
  \/ toggleSidebar
  \/ toggleStats

SpecSession == InitSession /\ [][NextSession]_vars

\* startup: the slot may hold text that does not parse
InitLoad == Boot({"App", "P1b", "P2a"}, BOOLEAN)

NextLoad ==
  \/ Render
  \/ Reload
  \/ corruptSnapshot
  \/ handleLogin
  \/ handleLogout
  \/ handleStart
  \/ handleCreateNew
  \/ toggleDarkMode
  \/ toggleSidebar

SpecLoad == InitLoad /\ [][NextLoad]_vars

\* files bound to the disk: part_002, both components
InitFile == Boot({"P2a", "P2b"}, {FALSE})

NextFile ==
  \/ Render
  \/ Reload
  \/ autoSaveTick
  \/ handleStart
  \/ handleExit
  \/ handleCreateNew
  \/ handleStartFile
  \/ backToLanding
  \/ handleCreateNewFile
  \/ toggleFocusMode
  \/ toggleDarkMode
  \/ \E c \in TreeTexts : handleOpenFile(c) \/ handleOpenFileSingle(c) \/ updateContent(c)
  \/ \E id \in Ids : onSelectFile(id)

SpecFile == InitFile /\ [][NextFile]_vars

\* saving to the disk: saveFile and the timer, next to the editor
InitSave == Boot({"P2a", "P2b"}, {FALSE})

NextSave ==
  \/ Render
  \/ autoSaveTick
  \/ handleStart
  \/ handleStartFile
  \/ nextId <= MaxSaveId /\ handleCreateNew
  \/ nextId <= MaxSaveId /\ handleCreateNewFile
  \/ \E c \in TreeTexts : nextId <= MaxSaveId /\ handleOpenFile(c)
  \/ \E c \in TreeTexts : nextId <= MaxSaveId /\ handleOpenFileSingle(c)
  \/ \E c \in FileTexts : updateContent(c)
  \/ \E c \in FileTexts : onChangePart002(c)
  \/ \E id \in Ids : onSelectFile(id)
  \/ \E hasPicker \in BOOLEAN : saveFile(hasPicker)
  \/ \E picked \in BOOLEAN : showSaveFilePickerReturns(picked)
  \/ \E answer \in PermissionStates : queryPermissionReturns(answer)
  \/ \E result \in RequestResults : requestPermissionReturns(result)
  \/ \E ok \in BOOLEAN : writeFile(ok)

SpecSave == InitSave /\ [][NextSave]_vars

\* proofreading in src/App.tsx, next to the editor and the tree
ProofTexts == {<<"a">>, <<" ", "a">>}

InitProof == Boot({"App"}, {FALSE})

NextProof ==
  \/ Render
  \/ handleLogin
  \/ nextId <= MaxSaveId /\ createNode("FILE", RootFolderId(rendered))
  \/ \E id \in Ids : onSelectFile(id)
  \/ \E id \in Ids : deleteNode(id)
  \/ \E content \in ProofTexts : updateFileContent(rendered.activeFileId, content)
  \/ \E start \in 0..(MaxLen - 1), len \in 1..MaxSel : handleProofread(start, start + len)
  \/ \E ok \in BOOLEAN, corrected \in CorrectedTexts : proofreadTextReturns(ok, corrected)
  \/ discardProofread
  \/ applyProofread

SpecProof == InitProof /\ [][NextProof]_vars

\* the tree operations as the Sidebar props expose them
InitOps == Boot({"App", "P2a"}, {FALSE})

NextOps ==
  \/ Render
  \/ handleLogin
  \/ handleStart
  \/ nextId <= MaxSaveId /\ handleCreateNew
  \/ \E type \in {"FOLDER", "FILE"}, parentId \in Ids \cup {NoId} :
       nextId <= MaxSaveId /\ onCreateNode(type, parentId)
  \/ \E sourceId \in Ids, targetParentId \in Ids : onReorganize(sourceId, targetParentId)

SpecOps == InitOps /\ [][NextOps]_vars

\* the bulk reorganize of src/App.tsx; the service may also answer with no
\* folder at all
InitBulk == Boot({"App"}, {FALSE})

NextBulk ==
  \/ Render
  \/ handleLogin
  \/ createBook
  \/ \E id \in Ids : deleteNode(id)
  \/ \E id \in Ids : switchBook(id)
  \/ \E id \in Ids : onSelectFile(id)
  \/ \E folders \in BulkRequests \cup {<<>>} : handleReorganizeBulk(folders)

SpecBulk == InitBulk /\ [][NextBulk]_vars

\* the ways a content gets into a node: typing, find-and-replace, opening
\* and importing files
InitContent == Boot({"App", "P2a"}, {FALSE})

NextContent ==
  \/ Render
  \/ handleLogin
  \/ handleStart
  \/ nextId <= MaxSaveId /\ handleCreateNew
  \/ \E c \in FileTexts : nextId <= MaxSaveId /\ handleOpenFile(c)
  \/ \E c \in FileTexts : nextId <= MaxSaveId /\ handleImport(c)
  \/ \E c \in FileTexts : updateFileContent(rendered.activeFileId, c)
  \/ \E c \in FileTexts : onChangePart002(c)
  \/ \E newContent \in FileTexts : onReplace(newContent)
  \/ \E id \in Ids : onSelectFile(id)

SpecContent == InitContent /\ [][NextContent]_vars

\* tagging the nodes of the Sidebar of part_002
InitTags == Boot({"P2a"}, {FALSE})

NextTags ==
  \/ Render
  \/ handleStart
  \/ handleCreateNew
  \/ \E type \in {"FOLDER", "FILE"} : handleCreateNode(type, RootFolderId(rendered))
  \/ \E id \in Ids : handleDeleteNode(id)
  \/ \E id \in Ids, tag \in Tags : handleAddTag(id, tag)
  \/ \E id \in Ids, tag \in Tags : handleRemoveTag(id, tag)

SpecTags == InitTags /\ [][NextTags]_vars

\* ---- the properties ----
\* the nodes below id: through the children lists and through parentId
RECURSIVE Below(_, _, _)
Below(m, ids, fuel) ==
  LET more == ids \cup UNION {Range(m[i].children) : i \in ids \cap DOMAIN m}
                  \cup {n \in DOMAIN m : m[n].parentId \in ids}
  IN IF fuel = 0 \/ more = ids THEN ids ELSE Below(m, more, fuel - 1)

Descendants(m, id) == Below(m, {id}, MaxId) \ {id}

\* the nodes met when following parentId upwards from n
RECURSIVE Ancestors(_, _, _)
Ancestors(m, n, fuel) ==
  IF fuel = 0 \/ n \notin DOMAIN m \/ m[n].parentId = NoId THEN {}
  ELSE {m[n].parentId} \cup Ancestors(m, m[n].parentId, fuel - 1)

\* the folders that list id among their children
ListedIn(m, id) == {p \in DOMAIN m : Contains(m[p].children, id)}

\* the step is a call deleteNode(id)
DeleteStep(id) ==
  batch' = batch + 1 /\ last'.op = "deleteNode" /\ last'.args = <<id>>

\* the step is a call moveNode(id, B)
MoveStep(id, B) ==
  batch' = batch + 1 /\ last'.op = "moveNode" /\ last'.args = <<id, B>>

\* id is a node of s other than a root
NonRoot(s, id) ==
  /\ id \in DOMAIN s.fileMap
  /\ id \notin BookRoots(s)
  /\ s.fileMap[id].parentId # NoId

\* C1: in every reachable state every node with a non-null parentId has a
\* parent that exists, is a FOLDER and lists the node exactly once.
C1_Forest ==
  \A n \in DOMAIN state.fileMap :
    LET p == state.fileMap[n].parentId
    IN p # NoId =>
         /\ p \in DOMAIN state.fileMap
         /\ state.fileMap[p].type = "FOLDER"
         /\ Count(state.fileMap[p].children, n) = 1

\* C2: moveNode(id, B) with B = id or B below id leaves the tree unchanged,
\* and in every reachable state no node is its own ancestor.
C2_NoCycle ==
  /\ [](\A n \in DOMAIN state.fileMap : n \notin Ancestors(state.fileMap, n, MaxId))
  /\ [][\A id \in Ids, B \in Ids :
         (MoveStep(id, B) /\ id \in DOMAIN state.fileMap
            /\ B \in Descendants(state.fileMap, id) \cup {id})
         => state'.fileMap = state.fileMap]_vars

\* C3: after deleteNode(id) on a non-root node, id and all its descendants
\* are gone, no remaining node has one of them as parentId, and no remaining
\* children list names one of them.
C3_DeleteCascade ==
  [][\A id \in Ids :
       (DeleteStep(id) /\ NonRoot(state, id)) =>
         LET gone == Descendants(state.fileMap, id) \cup {id}
             m == state'.fileMap
         IN /\ gone \cap DOMAIN m = {}
            /\ \A n \in DOMAIN m :
                 m[n].parentId \notin gone /\ Range(m[n].children) \cap gone = {}]_vars

\* C4: deleteNode called with the root id of a workspace of the registry
\* leaves the node map, the registry and the active ids unchanged, also when
\* the workspace was created in the same batch.
C4_RootProtection ==
  [][\A id \in Ids :
       (DeleteStep(id) /\ id \in BookRoots(state)) =>
         /\ state'.fileMap = state.fileMap
         /\ state'.books = state.books
         /\ state'.activeBookId = state.activeBookId
         /\ state'.activeFileId = state.activeFileId]_vars

\* the number of maximal non-whitespace runs of a text
Runs(text) ==
  Cardinality({i \in 1..Len(text) :
                 ~IsWs(text[i]) /\ (i = 1 \/ IsWs(text[i - 1]))})

\* C5: updateContent(id, text) stores as wordCount the number of maximal
\* non-whitespace runs of text.
C5_WordCount ==
  (last.op = "updateContent" /\ last.args[1] \in DOMAIN state.fileMap) =>
    state.fileMap[last.args[1]].wordCount
      = Runs(state.fileMap[last.args[1]].content)

\* s with the external file handles taken off its nodes
WithoutHandles(s) ==
  [s EXCEPT !.fileMap = [i \in DOMAIN s.fileMap |->
                           [s.fileMap[i] EXCEPT !.fileHandle = "absent"]]]

C7_IdempotentReorganize ==
  [][(/\ last.op = "bulkReorganize"
      /\ last'.op = "bulkReorganize"
      /\ batch' = batch + 1
      /\ last'.args = last.args)
     => \A i \in DOMAIN last'.args : \A f \in Range(last'.args[i]) :
          Cardinality(ListedIn(state'.fileMap, f)) <= 1]_vars

\* C8: deleteNode(id) sets the active node id to null when the active node
\* is id or below id, and leaves it unchanged otherwise.
C8_DeleteClearsActive ==
  [][\A id \in Ids :
       (DeleteStep(id) /\ NonRoot(state, id)) =>
         IF state.activeFileId \in Descendants(state.fileMap, id) \cup {id}
         THEN state'.activeFileId = NoId
         ELSE state'.activeFileId = state.activeFileId]_vars

\* the precondition of C9 in state s: id has the parent A, B is another
\* existing FOLDER that is neither id nor below id
MovePre(s, id, A, B) ==
  /\ id \in DOMAIN s.fileMap
  /\ s.fileMap[id].parentId = A
  /\ A \in DOMAIN s.fileMap
  /\ B \in DOMAIN s.fileMap
  /\ s.fileMap[B].type = "FOLDER"
  /\ A # B /\ B # id
  /\ B \notin Descendants(s.fileMap, id)

\* the postcondition of C9 from the map m to the map n
MovePost(m, n, id, A, B) ==
  /\ ~Contains(n[A].children, id)
  /\ Count(n[B].children, id) = 1
  /\ n[B].children[Len(n[B].children)] = id
  /\ n[id].parentId = B
  /\ n[B].isOpen
  /\ Without(n[A].children, id) = Without(m[A].children, id)
  /\ Without(n[B].children, id) = Without(m[B].children, id)

\* C9: moveNode(id, B) of a node with parent A (A # B, B an existing FOLDER
\* that is not id or below id) removes id from A.children, makes id the last
\* element of B.children, there exactly once, sets id's parentId to B, opens
\* B and keeps the order of the other children of A and B.
C9_MovePostcondition ==
  [][\A id \in Ids, A \in Ids, B \in Ids :
       (MoveStep(id, B) /\ MovePre(state, id, A, B)) =>
         MovePost(state.fileMap, state'.fileMap, id, A, B)]_vars

\* a move into a folder that already had a child
C9_Witness ==
  /\ batch = 1
  /\ last.op = "moveNode"
  /\ \E A \in Ids :
       /\ MovePre(rendered, last.args[1], A, last.args[2])
       /\ rendered.fileMap[last.args[2]].children # <<>>
       /\ Len(rendered.fileMap[A].children) > 1
       /\ MovePost(rendered.fileMap, state.fileMap, last.args[1], A, last.args[2])

\* C10: no children list names an id twice, no id is named by two folders,
\* and every named id is a node whose parentId is the naming folder.
C10_ChildrenUnique ==
  \A p \in DOMAIN state.fileMap :
    \A c \in Range(state.fileMap[p].children) :
      /\ Count(state.fileMap[p].children, c) = 1
      /\ ListedIn(state.fileMap, c) = {p}
      /\ c \in DOMAIN state.fileMap
      /\ state.fileMap[c].parentId = p

\* the step is a call deleteWorkspace(id)
DeleteBookStep(id) ==
  batch' = batch + 1 /\ last'.op = "deleteBook" /\ last'.args = <<id>>

\* the roots of the workspaces of s that have the id
RootsOfBook(s, id) ==
  {s.books[i].rootFolderId : i \in {j \in DOMAIN s.books : s.books[j].id = id}}

\* C11: the nodes with a null parentId are exactly the roots the registry
\* names; every workspace's root is an existing FOLDER; no two workspaces
\* share a root.
C11_RootCorrespondence ==
  /\ {n \in DOMAIN state.fileMap : state.fileMap[n].parentId = NoId}
       = BookRoots(state)
  /\ \A r \in BookRoots(state) :
       r \in DOMAIN state.fileMap /\ state.fileMap[r].type = "FOLDER"
  /\ \A i \in DOMAIN state.books : \A j \in DOMAIN state.books :
       i # j => state.books[i].rootFolderId # state.books[j].rootFolderId

\* C12: deleteWorkspace(id) of the only workspace leaves the registry, the
\* node map and the active ids unchanged, and a registry that holds a
\* workspace never becomes empty.
C12_LastWorkspace ==
  [][/\ \A id \in Ids :
          (DeleteBookStep(id) /\ BookIds(state) = {id}) =>
            (/\ state'.books = state.books
             /\ state'.fileMap = state.fileMap
             /\ state'.activeBookId = state.activeBookId
             /\ state'.activeFileId = state.activeFileId)
      /\ (state.books # <<>> => state'.books # <<>>)]_vars

\* C13: after a successful deleteWorkspace(id) the root of the workspace and
\* every node below it are absent, and the other nodes are unchanged.
C13_WorkspaceCascade ==
  [][\A id \in Ids :
       (DeleteBookStep(id) /\ id \in BookIds(state) /\ id \notin BookIds(state')) =>
         LET gone == Below(state.fileMap, RootsOfBook(state, id), MaxId)
         IN /\ gone \cap DOMAIN state'.fileMap = {}
            /\ \A n \in DOMAIN state.fileMap \ gone :
                 /\ n \in DOMAIN state'.fileMap
                 /\ state'.fileMap[n] = state.fileMap[n]]_vars

\* C14: deleteWorkspace of the active workspace makes the first remaining
\* workspace active and the active node null; deleteWorkspace of another
\* workspace leaves both active ids unchanged.
C14_ActiveAfterDelete ==
  [][\A id \in Ids :
       (/\ DeleteBookStep(id)
        /\ id \in BookIds(state)
        /\ id \notin BookIds(state')
        /\ state'.books # <<>>) =>
         IF state.activeBookId = id
         THEN /\ state'.activeBookId = state'.books[1].id
              /\ state'.activeFileId = NoId
         ELSE /\ state'.activeBookId = state.activeBookId
              /\ state'.activeFileId = state.activeFileId]_vars

\* C15: switchActive(id) sets the active node id to null.
C15_SwitchClearsActive ==
  [][(batch' = batch + 1 /\ last'.op = "switchBook")
     => state'.activeFileId = NoId]_vars

\* C16: the active node id is null or the id of an existing FILE.
C16_ActiveNodeValid ==
  state.activeFileId # NoId =>
    /\ state.activeFileId \in DOMAIN state.fileMap
    /\ state.fileMap[state.activeFileId].type = "FILE"

\* C17: an id that was handed out and has no entry in the node map (it was
\* deleted) gets no entry again by any later operation.
C17_NoResurrection ==
  [][\A id \in Ids :
       (id < nextId /\ id \notin DOMAIN state.fileMap)
       => id \notin DOMAIN state'.fileMap]_vars

\* C18: when the slot holds text that cannot be parsed, startup completes
\* with the default state.
C18_FailSoftLoad ==
  (last.op = "reload" /\ JSONparseThrows(last.args[2])) =>
    \E dark \in BOOLEAN : state = getInitialState(app, NoSnapshot, dark)

\* C19: after a load of the snapshot written for a state, the fileHandle of
\* every node of the loaded state is absent.
C19_NoBindingSurvives ==
  (last.op = "reload" /\ ~JSONparseThrows(last.args[2])) =>
    \A n \in DOMAIN state.fileMap : state.fileMap[n].fileHandle = "absent"

\* C20: a tick of the auto-save timer requests no permission and opens no
\* file picker; it writes to the file only if the state it read has an active
\* node, the node has a handle and queryPermission answered granted.
C20_AutoWriteNeverPrompts ==
  last.op = "autoSave" =>
    LET effects == last.args[1]
        answer == last.args[2]
        s == last.args[3]
    IN /\ effects \cap {"requestPermission", "showSaveFilePicker", "showOpenFilePicker"} = {}
       /\ "write" \in effects =>
            /\ s.activeFileId # NoId
            /\ s.activeFileId \in DOMAIN s.fileMap
            /\ s.fileMap[s.activeFileId].fileHandle # "absent"
            /\ "queryPermission" \in effects
            /\ answer = "granted"

\* a tick on an active node with a handle whose permission is not granted:
\* the permission was queried and nothing else happened
C20_Witness ==
  /\ last.op = "autoSave"
  /\ last.args[2] # "granted"
  /\ last.args[3].activeFileId \in DOMAIN last.args[3].fileMap
  /\ last.args[3].fileMap[last.args[3].activeFileId].fileHandle = "handle"
  /\ last.args[1] = {"queryPermission"}

\* C21: a manual save whose permission query is not answered granted asks
\* for the permission before it writes; when the user denies it, the save
\* ends, nothing is written, and the save has not touched the state: the
\* title, the content and the fileHandle of the node are as they were.
C21_DenialLeavesNode ==
  [][/\ (saving.pc = "query" /\ saving'.pc # "query" /\ last'.args[1] # "granted")
        => saving'.pc = "request" /\ disk' = disk
     /\ (saving.pc = "request" /\ saving'.pc # "request" /\ last'.args[1] = "denied")
        => /\ saving' = NoSave
           /\ disk' = disk
           /\ state' = state
           /\ ~saving.picked
     /\ (saving.pc # "write" /\ saving'.pc = "write")
        => last'.args[1] = "granted"]_vars

\* the user has denied the permission for a node that holds a handle
C21_Witness ==
  /\ last.op = "requestPermission"
  /\ last.args[1] = "denied"
  /\ saving = NoSave
  /\ last.args[2] \in DOMAIN state.fileMap
  /\ state.fileMap[last.args[2]].fileHandle = "handle"

\* C28: when no save is in flight, the permission banner is not displayed.
C28_BannerTransient ==
  saving = NoSave => ~permissionMessage

\* C29: the text a completed write put into the external file is the
\* content the node has in the node map at the moment of the write.
C29_SavedContentCurrent ==
  /\ last.op = "saveWrite" =>
       /\ last.args[1] \in DOMAIN state.fileMap
       /\ state.fileMap[last.args[1]].content = last.args[2]
  /\ (last.op = "autoSave" /\ "write" \in last.args[1]) =>
       /\ state.activeFileId \in DOMAIN state.fileMap
       /\ disk[last.args[3].activeFileId] = state.fileMap[state.activeFileId].content

\* C22: once the handler calls of an event are rendered, the slot holds the
\* snapshot of the state they produced.
C22_WriteThrough ==
  (batch = 0 /\ last.op \notin {"init", "reload"} /\ ~JSONparseThrows(storage)) =>
    /\ storage # NoSnapshot
    /\ WithoutHandles(storage[1]) = WithoutHandles(state)

\* C23: accepting a suggestion changes no node but the file it was requested
\* for, and changes that file only when the recorded range of its content
\* still is the text that was selected; the range is then replaced by the
\* corrected text.
C23_SupersededDiscarded ==
  [][(proofread.pc = "result" /\ last'.op = "applyProofread" /\ batch' = batch + 1) =>
       \A n \in DOMAIN state'.fileMap :
         (n \notin DOMAIN state.fileMap \/ state'.fileMap[n] # state.fileMap[n]) =>
           /\ n = proofread.fileId
           /\ n \in DOMAIN state.fileMap
           /\ substring(state.fileMap[n].content, proofread.start, proofread.end)
                = proofread.original
           /\ state'.fileMap[n].content
                = substring(state.fileMap[n].content, 0, proofread.start)
                  \o proofread.corrected
                  \o substring(state.fileMap[n].content, proofread.end,
                               Len(state.fileMap[n].content))]_vars

\* the parent handed to createNode / moveNode is missing or is no FOLDER
InvalidParent(s, parentId) ==
  parentId \notin DOMAIN s.fileMap \/ s.fileMap[parentId].type # "FOLDER"

\* C24: createNode(kind, parentId) and moveNode(id, newParentId) with a
\* parent that is missing from the node map or is not a FOLDER leave the
\* whole state unchanged.
C24_InvalidParent ==
  [][(/\ last'.op \in {"createNode", "moveNode"}
      /\ batch' = batch + 1
      /\ InvalidParent(state, last'.args[2]))
     => state' = state]_vars

\* a step of bulkReorganize
BulkStep == last'.op = "bulkReorganize" /\ batch' = batch + 1

\* C25: bulkReorganize under a parent that exists skips a listed file id
\* that does not exist and applies every other entry: each new folder is a
\* child of the parent and each listed file that exists is in a new folder
\* that lists it; under a parent that does not exist it leaves the state
\* unchanged.
C25_BulkBatch ==
  [][BulkStep =>
       LET folders == last'.args
           rootId == RootFolderId(rendered)
           created == nextId..(nextId + Len(folders) - 1)
           m == state.fileMap
           n == state'.fileMap
       IN IF rootId \in DOMAIN m
          THEN /\ \A c \in created :
                    c \in DOMAIN n /\ n[c].parentId = rootId /\ Contains(n[rootId].children, c)
               /\ \A i \in DOMAIN folders : \A f \in Range(folders[i]) :
                    IF f \in DOMAIN m
                    THEN n[f].parentId \in created /\ Contains(n[n[f].parentId].children, f)
                    ELSE f \notin DOMAIN n
          ELSE state' = state]_vars

\* C26: in every state, the wordCount of every FILE node is the number of
\* maximal non-whitespace runs of its content.
C26_WordCountDerived ==
  \A n \in DOMAIN state.fileMap :
    state.fileMap[n].type = "FILE" =>
      state.fileMap[n].wordCount = Runs(state.fileMap[n].content)

\* C27: an add-tag or remove-tag action on a FILE node leaves tags without
\* a duplicate, holding the labels it held before with the label added,
\* respectively removed; on a FOLDER node it leaves the node unchanged.
C27_TagSetIntegrity ==
  [][(last'.op \in {"addTag", "removeTag"} /\ batch' = batch + 1) =>
       LET id == last'.args[1]
           tag == last'.args[2]
           old == SpreadNode(state.fileMap, id)
           new == SpreadNode(state'.fileMap, id)
       IN IF old.type = "FILE"
          THEN /\ \A t \in Tags : Count(new.tags, t) <= 1
               /\ Range(new.tags) = IF last'.op = "addTag"
                                    THEN Range(old.tags) \cup {tag}
                                    ELSE Range(old.tags) \ {tag}
          ELSE new = old]_vars

\* C30: an updateContent, toggleFolder or tag step leaves the set of node
\* ids, every node's parentId, type and children, the workspace registry and
\* the active ids unchanged, and changes no node but the one it names.
C30_NonStructuralFrame ==
  [][(/\ last'.op \in {"updateContent", "toggleFolder", "addTag", "removeTag"}
      /\ batch' = batch + 1)
     => /\ DOMAIN state'.fileMap = DOMAIN state.fileMap
        /\ \A n \in DOMAIN state.fileMap :
             /\ state'.fileMap[n].parentId = state.fileMap[n].parentId
             /\ state'.fileMap[n].type = state.fileMap[n].type
             /\ state'.fileMap[n].children = state.fileMap[n].children
             /\ n # last'.args[1] => state'.fileMap[n] = state.fileMap[n]
        /\ state'.books = state.books
        /\ state'.activeBookId = state.activeBookId
        /\ state'.activeFileId = state.activeFileId]_vars

=============================================================================
